---- MODULE Spec2Model ----
(***************************************************************************)
(* Model of lib/nbd_util/random.py: class RNG with the static methods      *)
(* uniform(n, lo, hi) and sphere(n), both drawing from numpy's process-    *)
(* wide generator (np.random).                                             *)
(*                                                                         *)
(* Floating-point numbers are fixed-point integers: the float v is the     *)
(* integer v * Scale, one unit being the arithmetic's resolution (1 ulp).  *)
(* Sums and differences are exact, a product is rounded to the nearest     *)
(* unit, as a float product is rounded to the nearest float.               *)
(***************************************************************************)
EXTENDS Integers, Sequences, FiniteSets

\* ------------------------------------------------------------ arithmetic

\* 1.0 in units; 1.0e-6, the smallest literal of the source, is one unit.
Scale == 10^6

\* The split base of Mul: Half * Half = Scale, so that no partial product
\* leaves the 32-bit integers.
Half == 10^3

\* Not-a-number, what np.arccos returns outside [-1, 1]; it propagates.
NaN == -(2^30)

Abs(a) == IF a < 0 THEN -a ELSE a

\* The numeric routines are functions: a function's argument is a value when
\* its body is evaluated, as an argument is in the program.

\* q + r / Scale rounded to the nearest integer, a tie to the even one.
RoundEven[q \in Nat, r \in Nat] ==
    IF 2 * r > Scale \/ (2 * r = Scale /\ q % 2 = 1) THEN q + 1 ELSE q

\* a * b / Scale for a, b >= 0, rounded to the nearest unit.
MulNat[a \in Nat, b \in Nat] ==
    LET ah == a \div Half
        al == a % Half
        bh == b \div Half
        bl == b % Half
        mid == ah * bl + al * bh
        low == (mid % Half) * Half + al * bl
    IN  RoundEven[ah * bh + (mid \div Half) + (low \div Scale), low % Scale]

\* The float product a * b: rounded to nearest, symmetric in sign.
Mul[a \in Int, b \in Int] ==
    IF a = NaN \/ b = NaN THEN NaN
    ELSE IF (a < 0) = (b < 0) THEN MulNat[Abs(a), Abs(b)]
    ELSE -MulNat[Abs(a), Abs(b)]

\* np.pi, pi/2 and 2.0*np.pi in units.
Pi == 3141593
HalfPi == 1570796
TwoPi == 6283185

\* One step of a Taylor series in Horner form: 1 - y * t / k.
Horner[y \in Int, t \in Int, k \in Int] == Scale - (Mul[y, t] \div k)

\* cos on [0, pi/2]: 1 - y/2 (1 - y/12 (1 - y/30 ( ... (1 - y/182)))) with
\* y = x^2, the series to x^14.
CosY[y \in Int] ==
    Horner[y, Horner[y, Horner[y, Horner[y, Horner[y, Horner[y,
        Horner[y, Scale, 182], 132], 90], 56], 30], 12], 2]

CosQ[x \in Int] == CosY[Mul[x, x]]

\* sin on [0, pi/2]: x (1 - y/6 (1 - y/20 ( ... (1 - y/210)))), to x^15.
SinY[y \in Int] ==
    Horner[y, Horner[y, Horner[y, Horner[y, Horner[y, Horner[y,
        Horner[y, Scale, 210], 156], 110], 72], 42], 20], 6]

SinQ[x \in Int] == Mul[x, SinY[Mul[x, x]]]

\* np.cos for an angle in [0, 2*pi], by quadrant.
Cos[x \in Int] ==
    IF x = NaN THEN NaN
    ELSE IF x <= HalfPi THEN CosQ[x]
    ELSE IF x <= Pi THEN -CosQ[Pi - x]
    ELSE IF x <= Pi + HalfPi THEN -CosQ[x - Pi]
    ELSE CosQ[TwoPi - x]

\* np.sin for an angle in [0, 2*pi], by quadrant.
Sin[x \in Int] ==
    IF x = NaN THEN NaN
    ELSE IF x <= HalfPi THEN SinQ[x]
    ELSE IF x <= Pi THEN SinQ[Pi - x]
    ELSE IF x <= Pi + HalfPi THEN -SinQ[x - Pi]
    ELSE -SinQ[TwoPi - x]

\* The largest angle in [a, b] whose cosine is at least c, by bisection (cos
\* falls from a to b).
Bisect[c \in Int, a \in Int, b \in Int] ==
    IF b - a <= 1 THEN (IF Cos[b] >= c THEN b ELSE a)
    ELSE IF Cos[(a + b) \div 2] >= c
         THEN Bisect[c, (a + b) \div 2, b]
         ELSE Bisect[c, a, (a + b) \div 2]

\* np.arccos: the polar angle in [0, pi] of a cosine in [-1, 1], NaN outside.
Arccos[c \in Int] ==
    IF c = NaN \/ c < -Scale \/ c > Scale THEN NaN
    ELSE IF c = Scale THEN 0
    ELSE IF c = -Scale THEN Pi
    ELSE Bisect[c, 0, Pi]

\* --------------------------------------------------------- the generator

\* The values k of the draws k / Scale in [0, 1) the generator produces, in
\* the order of its cycle: both ends of the range, the middle, the values
\* next to them and two values between.
DrawValues == <<0, 999999, 400000, 750000, 1, 999998, 499999, 500000>>

\* The generator's states: it is a deterministic state machine whose seed
\* the program never sets.
Period == Len(DrawValues)
GenStates == 0 .. (Period - 1)

\* The state after one draw.
NextGen(g) == (g + 1) % Period

\* The state after j draws.
RECURSIVE GenAt(_, _)
GenAt(g, j) == IF j = 0 THEN g ELSE GenAt(NextGen(g), j - 1)

\* random_sample(): the j-th next draw of state g, as k of k / Scale.
Draw(g, j) == DrawValues[GenAt(g, j) + 1]

\* np.random.uniform(low, high, size): size draws, each
\* low + (high - low) * random_sample(), the product rounded; a negative
\* size raises ValueError before any draw. The call is logged with its
\* arguments as received.
np_random_uniform(w, low, high, size) ==
    IF size < 0
    THEN [ok |-> FALSE, err |-> "ValueError", val |-> <<>>, buf |-> 0,
          w |-> [w EXCEPT !.log = Append(@,
                    [caller |-> w.caller, low |-> low, high |-> high,
                     size |-> size, g |-> w.gen, first |-> w.drawn,
                     ok |-> FALSE])]]
    ELSE [ok |-> TRUE, err |-> "",
          val |-> [i \in 1 .. size |->
                      low + Mul[high - low, Draw(w.gen, i - 1)]],
          buf |-> w.nextBuf,
          w |-> [w EXCEPT !.gen = GenAt(@, size),
                          !.drawn = @ + size,
                          !.nextBuf = @ + 1,
                          !.log = Append(@,
                    [caller |-> w.caller, low |-> low, high |-> high,
                     size |-> size, g |-> w.gen, first |-> w.drawn,
                     ok |-> TRUE])]]

\* ------------------------------------------------------------ class RNG

\* An argument the caller left out.
Omitted == -(2^30) - 1

\* 1.0e-6, the margin of the polar draws.
EPS == 1

\* uniform as it would be if it filled and returned one scratch array kept
\* on the class.
uniform_scratch(w, n, lo, hi) ==
    LET r == np_random_uniform(w, IF lo = Omitted THEN 0 ELSE lo,
                               IF hi = Omitted THEN Scale ELSE hi, n)
    IN  [r EXCEPT !.buf = IF r.ok THEN 1 ELSE 0,
                  !.w = [r.w EXCEPT !.attrs = IF r.ok THEN {"scratch"} ELSE @,
                                     !.nextBuf = w.nextBuf]]

\* uniform as it would be if it validated its arguments (n >= 0, lo < hi)
\* and failed with an error of its own.
uniform_validated(w, n, lo, hi) ==
    LET l == IF lo = Omitted THEN 0 ELSE lo
        h == IF hi = Omitted THEN Scale ELSE hi
    IN  IF n < 0 \/ l >= h
        THEN [ok |-> FALSE, err |-> "InvalidArgument", val |-> <<>>,
              buf |-> 0, w |-> w]
        ELSE np_random_uniform(w, l, h, n)

\* RNG.uniform(n, lo=0., hi=1.)
uniform(w, n, lo, hi) ==
    LET l == IF lo = Omitted THEN 0 ELSE lo
        h == IF hi = Omitted THEN Scale ELSE hi
    IN  np_random_uniform(w, l, h, n)

\* CoordsCvt.sphere_to_cart(t, phi): the rows x, y, z of the points of
\* polar angles t and azimuthal angles phi.
sphere_to_cart(t, phi) ==
    << [i \in 1 .. Len(t) |-> Mul[Sin[t[i]], Cos[phi[i]]]],
       [i \in 1 .. Len(t) |-> Mul[Sin[t[i]], Sin[phi[i]]]],
       [i \in 1 .. Len(t) |-> Cos[t[i]]] >>

\* ndarray.T of a matrix of three rows: one triple per column.
Transpose(m) == [i \in 1 .. Len(m[1]) |-> <<m[1][i], m[2][i], m[3][i]>>]

\* sphere's first lines as they would be if the polar angle itself were
\* drawn uniformly over [0, pi].
sphere_polar_naive(w, n) ==
    LET r == uniform(w, n, EPS, Scale - EPS)
        cos_t == [i \in 1 .. Len(r.val) |-> 2 * r.val[i] - Scale]
    IN  [ok |-> r.ok, err |-> r.err, w |-> r.w, u |-> r.val,
         cos_t |-> cos_t,
         t |-> [i \in 1 .. Len(r.val) |-> Mul[Pi, r.val[i]]]]

\* sphere's first lines as they would be without the margin: u over [0, 1).
sphere_polar_nomargin(w, n) ==
    LET r == uniform(w, n, Omitted, Omitted)
        cos_t == [i \in 1 .. Len(r.val) |-> 2 * r.val[i] - Scale]
    IN  [ok |-> r.ok, err |-> r.err, w |-> r.w, u |-> r.val,
         cos_t |-> cos_t,
         t |-> [i \in 1 .. Len(cos_t) |-> Arccos[cos_t[i]]]]

\* sphere's first lines as they would be with the -1.0 left out.
sphere_polar_unshifted(w, n) ==
    LET r == uniform(w, n, EPS, Scale - EPS)
        cos_t == [i \in 1 .. Len(r.val) |-> 2 * r.val[i]]
    IN  [ok |-> r.ok, err |-> r.err, w |-> r.w, u |-> r.val,
         cos_t |-> cos_t,
         t |-> [i \in 1 .. Len(cos_t) |-> Arccos[cos_t[i]]]]

\* sphere's first lines as they would be if the batch drew one value too
\* many and dropped it.
sphere_polar_extra(w, n) ==
    LET r == uniform(w, IF n < 0 THEN n ELSE n + 1, EPS, Scale - EPS)
        u == IF r.ok THEN SubSeq(r.val, 1, n) ELSE <<>>
        cos_t == [i \in 1 .. Len(u) |-> 2 * u[i] - Scale]
    IN  [ok |-> r.ok, err |-> r.err, w |-> r.w, u |-> u,
         cos_t |-> cos_t,
         t |-> [i \in 1 .. Len(cos_t) |-> Arccos[cos_t[i]]]]

\* RNG.sphere, lines 10-11: the polar batch, cos_t and t.
sphere_polar(w, n) ==
    LET r == uniform(w, n, EPS, Scale - EPS)
        cos_t == [i \in 1 .. Len(r.val) |-> 2 * r.val[i] - Scale]
    IN  [ok |-> r.ok, err |-> r.err, w |-> r.w, u |-> r.val,
         cos_t |-> cos_t,
         t |-> [i \in 1 .. Len(cos_t) |-> Arccos[cos_t[i]]]]

\* sphere's last lines as they would be if phi were taken from the polar
\* draws, (cos t + 1) / 2, and no second batch drawn.
sphere_azimuth_reuse(w, n, t) ==
    LET v == [i \in 1 .. Len(t) |-> (Cos[t[i]] + Scale) \div 2]
        phi == [i \in 1 .. Len(v) |-> Mul[TwoPi, v[i]]]
    IN  [ok |-> TRUE, err |-> "", v |-> v, phi |-> phi,
         result |-> Transpose(sphere_to_cart(t, phi)),
         buf |-> w.nextBuf,
         w |-> [w EXCEPT !.nextBuf = @ + 1]]

\* RNG.sphere, lines 12-13: the azimuthal batch, phi and the points; the
\* returned array is a view (.T) of the new array sphere_to_cart builds.
sphere_azimuth(w, n, t) ==
    LET r == uniform(w, n, Omitted, Omitted)
        phi == [i \in 1 .. Len(r.val) |-> Mul[TwoPi, r.val[i]]]
    IN  [ok |-> r.ok, err |-> r.err, v |-> r.val, phi |-> phi,
         result |-> IF r.ok THEN Transpose(sphere_to_cart(t, phi)) ELSE <<>>,
         buf |-> IF r.ok THEN r.w.nextBuf ELSE 0,
         w |-> IF r.ok THEN [r.w EXCEPT !.nextBuf = @ + 1] ELSE r.w]

\* ---------------------------------------------------------------- state

\* The callers: two threads of one process, each making one call.
Threads == {1, 2}

\* The largest count a caller passes; -1 is the negative count.
MaxN == 2
Counts == -1 .. MaxN

\* The intervals <<lo, hi>> a caller of uniform passes: the defaults, hi
\* left out, a negative interval, an interval one unit wide, an inverted
\* and a degenerate one.
Intervals ==
    { <<Omitted, Omitted>>, <<-Scale, Omitted>>, <<-2 * Scale, -Scale>>,
      <<0, 1>>, <<Scale, 0>>, <<Scale, Scale>> }

VARIABLES
    gen,      \* the state of numpy's process-wide generator
    drawn,    \* how many draws the generator has made
    nextBuf,  \* the next array the allocator hands out
    attrs,    \* what class RNG and its instances store: their attributes
    log,      \* the calls of np.random.uniform, in order
    calls,    \* the calls of RNG.uniform and RNG.sphere, in order of start
    cur       \* cur[t]: the call of thread t, 0 before it

vars == <<gen, drawn, nextBuf, attrs, log, calls, cur>>

\* What a call of thread t's call id sees of the process.
World(id) ==
    [gen |-> gen, drawn |-> drawn, nextBuf |-> nextBuf, attrs |-> attrs,
     log |-> log, caller |-> id]

Commit(w) ==
    /\ gen' = w.gen
    /\ drawn' = w.drawn
    /\ nextBuf' = w.nextBuf
    /\ attrs' = w.attrs
    /\ log' = w.log

Init ==
    /\ gen \in GenStates
    /\ drawn = 0
    /\ nextBuf = 1
    /\ attrs = {}
    /\ log = <<>>
    /\ calls = <<>>
    /\ cur = [t \in Threads |-> 0]

\* A call's entry as it would be if the component held a lock from the
\* entry of sphere to its return.
MayEnterLocked(t) ==
    /\ cur[t] = 0
    /\ \A s \in Threads : cur[s] # 0 => calls[cur[s]].pc # "azimuth"

\* Thread t may enter uniform or sphere: both are plain static methods that
\* take no lock, so all that is asked is that t has not made its call.
MayEnter(t) == cur[t] = 0

\* Thread t calls RNG.uniform(n, lo, hi): line 17, one call of the
\* generator, which numpy runs under the generator's lock.
CallUniform(t, n, lo, hi) ==
    /\ MayEnter(t)
    /\ \E r \in {uniform(World(Len(calls) + 1), n, lo, hi)} :
           /\ calls' = Append(calls,
                  [tid |-> t, op |-> "uniform", n |-> n, lo |-> lo, hi |-> hi,
                   pc |-> IF r.ok THEN "done" ELSE "raised", err |-> r.err,
                   start |-> gen, u |-> <<>>, cos_t |-> <<>>, t |-> <<>>,
                   v |-> <<>>, phi |-> <<>>, result |-> r.val, buf |-> r.buf])
           /\ cur' = [cur EXCEPT ![t] = Len(calls) + 1]
           /\ Commit(r.w)

\* Thread t calls RNG.sphere(n) and runs lines 10-11.
SpherePolar(t, n) ==
    /\ MayEnter(t)
    /\ \E r \in {sphere_polar(World(Len(calls) + 1), n)} :
           /\ calls' = Append(calls,
                  [tid |-> t, op |-> "sphere", n |-> n, lo |-> Omitted,
                   hi |-> Omitted,
                   pc |-> IF r.ok THEN "azimuth" ELSE "raised", err |-> r.err,
                   start |-> gen, u |-> r.u, cos_t |-> r.cos_t, t |-> r.t,
                   v |-> <<>>, phi |-> <<>>, result |-> <<>>, buf |-> 0])
           /\ cur' = [cur EXCEPT ![t] = Len(calls) + 1]
           /\ Commit(r.w)

\* Thread t's call of RNG.sphere runs lines 12-13 and returns.
SphereAzimuth(t) ==
    /\ cur[t] # 0
    /\ calls[cur[t]].pc = "azimuth"
    /\ \E r \in {sphere_azimuth(World(cur[t]), calls[cur[t]].n,
                                 calls[cur[t]].t)} :
           /\ calls' = [calls EXCEPT ![cur[t]] =
                  [@ EXCEPT !.pc = IF r.ok THEN "done" ELSE "raised",
                            !.err = r.err, !.v = r.v, !.phi = r.phi,
                            !.result = r.result, !.buf = r.buf]]
           /\ Commit(r.w)
    /\ UNCHANGED cur

Next ==
    \/ \E t \in Threads, n \in Counts, iv \in Intervals :
          CallUniform(t, n, iv[1], iv[2])
    \/ \E t \in Threads, n \in Counts : SpherePolar(t, n)
    \/ \E t \in Threads : SphereAzimuth(t)

Spec == Init /\ [][Next]_vars

\* ----------------------------------------------------------- properties

CallIds == 1 .. Len(calls)

\* The bounds a call of uniform draws between: the arguments, or the
\* defaults 0.0 and 1.0 for those left out.
LoOf(c) == IF c.lo = Omitted THEN 0 ELSE c.lo
HiOf(c) == IF c.hi = Omitted THEN Scale ELSE c.hi

\* The calls of the generator that call id made, in order.
LogOf(id) == SelectSeq(log, LAMBDA e : e.caller = id)

\* How far from 1.0 the squared norm of a point may be, and how far a
\* cosine may be from the value whose arccos was taken, in units.
NormTol == 2
CosTol == 2

IsTriple(p) == DOMAIN p = 1 .. 3

\* x^2 + y^2 + z^2 - 1 of a point, NaN when a coordinate is NaN.
NormErr(p) ==
    IF p[1] = NaN \/ p[2] = NaN \/ p[3] = NaN THEN NaN
    ELSE Mul[p[1], p[1]] + Mul[p[2], p[2]] + Mul[p[3], p[3]] - Scale

\* C1: for every n >= 0 and lo < hi, uniform(n, lo, hi) returns exactly n
\* values, each with lo <= v < hi, the bounds being 0.0 and 1.0 when left
\* out.
C1_HalfOpen ==
    \A id \in CallIds :
        LET c == calls[id]
        IN  (c.op = "uniform" /\ c.n >= 0 /\ LoOf(c) < HiOf(c)) =>
                /\ c.pc = "done"
                /\ Len(c.result) = c.n
                /\ \A i \in 1 .. c.n :
                      LoOf(c) <= c.result[i] /\ c.result[i] < HiOf(c)

\* C2: for every n >= 0, sphere(n) returns exactly n points, each a triple
\* (x, y, z) with x^2 + y^2 + z^2 within NormTol units of 1.0.
C2_UnitNorm ==
    \A id \in CallIds :
        LET c == calls[id]
        IN  (c.op = "sphere" /\ c.n >= 0) =>
                /\ c.pc \in {"azimuth", "done"}
                /\ c.pc = "done" =>
                      /\ Len(c.result) = c.n
                      /\ \A i \in 1 .. Len(c.result) :
                            /\ IsTriple(c.result[i])
                            /\ NormErr(c.result[i]) # NaN
                            /\ Abs(NormErr(c.result[i])) <= NormTol

\* A call sphere(MaxN) has returned points near both poles and between.
C2_Witness ==
    \E id \in CallIds :
        /\ calls[id].op = "sphere" /\ calls[id].pc = "done"
        /\ calls[id].n = MaxN
        /\ \E i, j \in 1 .. MaxN :
              /\ calls[id].result[i][3] < -(Scale \div 2)
              /\ calls[id].result[j][3] > 0

C4_Step ==
    /\ attrs' = attrs
    /\ \A id \in CallIds :
          /\ calls'[id].tid = calls[id].tid /\ calls'[id].op = calls[id].op
          /\ calls'[id].n = calls[id].n
          /\ calls'[id].lo = calls[id].lo /\ calls'[id].hi = calls[id].hi
          /\ calls[id].pc = "done" => calls'[id] = calls[id]
    /\ \A i, j \in 1 .. Len(calls') :
          (i # j /\ calls'[i].pc = "done" /\ calls'[j].pc = "done") =>
              calls'[i].buf # calls'[j].buf

\* C4, over every step of every behaviour: each step is a C4_Step.
C4_Stateless == [][C4_Step]_vars

\* Two calls have returned non-empty results and the generator has moved.
C4_Witness ==
    /\ drawn > 0
    /\ \E i, j \in CallIds :
          /\ i < j
          /\ calls[i].pc = "done" /\ calls[i].result # <<>>
          /\ calls[j].pc = "done" /\ calls[j].result # <<>>
          /\ calls[i].op # calls[j].op

\* A world holding generator state g and nothing else.
GenWorld(g) ==
    [gen |-> g, drawn |-> 0, nextBuf |-> 1, attrs |-> {}, log |-> <<>>,
     caller |-> 0]

\* C5: no validation and no error of the component's own. uniform calls the
\* generator once with n, lo and hi as given, whatever they are, and its
\* outcome is the generator's on them; sphere passes n as given to each
\* batch and fails exactly when the generator does.
C5_PassThrough ==
    \A id \in CallIds :
        LET c == calls[id]
            es == LogOf(id)
        IN  /\ c.err \in {"", "ValueError"}
            /\ Len(es) >= 1
            /\ \A k \in 1 .. Len(es) : es[k].size = c.n
            /\ (c.pc = "raised") = (\E k \in 1 .. Len(es) : ~es[k].ok)
            /\ c.op = "uniform" =>
                  /\ Len(es) = 1
                  /\ es[1].low = LoOf(c) /\ es[1].high = HiOf(c)
                  /\ LET r == np_random_uniform(GenWorld(es[1].g),
                                                LoOf(c), HiOf(c), c.n)
                     IN  c.result = r.val /\ c.err = r.err
            /\ c.op = "sphere" =>
                  /\ es[1].low = EPS /\ es[1].high = Scale - EPS
                  /\ c.pc = "done" =>
                        Len(es) = 2 /\ es[2].low = 0 /\ es[2].high = Scale

\* uniform with a negative count has failed with the generator's error, and
\* uniform with an inverted interval has returned values between hi and lo.
C5_Witness ==
    \E i, j \in CallIds :
        /\ calls[i].op = "uniform" /\ calls[i].n < 0
        /\ calls[i].pc = "raised" /\ calls[i].err = "ValueError"
        /\ calls[j].op = "uniform" /\ calls[j].pc = "done"
        /\ calls[j].n > 0 /\ HiOf(calls[j]) < LoOf(calls[j])
        /\ \A k \in 1 .. calls[j].n :
              /\ HiOf(calls[j]) <= calls[j].result[k]
              /\ calls[j].result[k] <= LoOf(calls[j])

\* C6: nothing serializes the calls. While a call of sphere is between its
\* polar and its azimuthal batch, a thread that has not made its call can
\* enter uniform and can enter sphere, and so draw from the generator.
C6_NoSerialization ==
    \A t, s \in Threads :
        (/\ cur[t] # 0
         /\ calls[cur[t]].pc = "azimuth"
         /\ cur[s] = 0) =>
            /\ ENABLED CallUniform(s, 1, Omitted, Omitted)
            /\ ENABLED SpherePolar(s, 1)

\* Another caller's draw lies between the two batches of a call of sphere.
C6_Witness ==
    \E k \in 1 .. (Len(log) - 2) :
        /\ log[k].caller = log[k + 2].caller
        /\ log[k + 1].caller # log[k].caller
        /\ log[k].size > 0 /\ log[k + 1].size > 0
        /\ calls[log[k].caller].op = "sphere"
        /\ calls[log[k].caller].pc = "done"

\* The calls of sphere that have drawn their polar batch.
Spheres ==
    {id \in CallIds : calls[id].op = "sphere" /\ calls[id].pc # "raised"}

\* C7: sphere samples the cosine of the polar angle, not the angle. For
\* every point i, u_i is the i-th value of the first batch,
\* theta_i = arccos(2 u_i - 1), z_i = cos(theta_i), which is 2 u_i - 1 to
\* within CosTol units, x_i = sin(theta_i) cos(phi_i) and
\* y_i = sin(theta_i) sin(phi_i).
C7_CosineSampling ==
    \A id \in Spheres :
        LET c == calls[id]
            e == LogOf(id)[1]
        IN  /\ Len(c.u) = c.n /\ Len(c.t) = c.n
            /\ \A i \in 1 .. c.n :
                  /\ c.u[i] = EPS + Mul[Scale - 2 * EPS, Draw(e.g, i - 1)]
                  /\ c.t[i] = Arccos[2 * c.u[i] - Scale]
            /\ c.pc = "done" =>
                  /\ Len(c.result) = c.n
                  /\ \A i \in 1 .. c.n :
                        /\ c.result[i][3] = Cos[c.t[i]]
                        /\ Abs(c.result[i][3] - (2 * c.u[i] - Scale)) <= CosTol
                        /\ c.result[i][1] = Mul[Sin[c.t[i]], Cos[c.phi[i]]]
                        /\ c.result[i][2] = Mul[Sin[c.t[i]], Sin[c.phi[i]]]

\* A call of sphere has returned a point below and a point above the
\* equator, and a point whose z is not exactly 2 u - 1.
C7_Witness ==
    \E id \in Spheres :
        /\ calls[id].pc = "done"
        /\ \E i, j, k \in 1 .. calls[id].n :
              /\ 2 * calls[id].u[i] < Scale /\ calls[id].result[i][3] < 0
              /\ 2 * calls[id].u[j] > Scale /\ calls[id].result[j][3] > 0
              /\ calls[id].result[k][3] # 2 * calls[id].u[k] - Scale

\* What C8 concludes from the range of u: cos_theta lies strictly inside
\* (-1, 1) and no point is an exact pole.
NoPole(c) ==
    /\ \A i \in 1 .. Len(c.u) :
          /\ -Scale < c.cos_t[i] /\ c.cos_t[i] < Scale
          /\ c.t[i] # 0 /\ c.t[i] # Pi
    /\ c.pc = "done" =>
          \A i \in 1 .. Len(c.result) :
              c.result[i][3] # Scale /\ c.result[i][3] # -Scale

\* C8 as stated: every polar draw u lies in the open interval
\* (1e-6, 1 - 1e-6), both endpoints excluded, so that no point is a pole.
C8_OpenInterval ==
    \A id \in Spheres :
        /\ \A i \in 1 .. Len(calls[id].u) :
              EPS < calls[id].u[i] /\ calls[id].u[i] < Scale - EPS
        /\ NoPole(calls[id])

\* C8 as amended: every polar draw u lies in the half-open interval
\* [1e-6, 1 - 1e-6), the lower endpoint included, so that cos_theta lies
\* strictly inside (-1, 1) and no point is a pole.
C8_HalfOpenMargin ==
    \A id \in Spheres :
        /\ \A i \in 1 .. Len(calls[id].u) :
              EPS <= calls[id].u[i] /\ calls[id].u[i] < Scale - EPS
        /\ NoPole(calls[id])

\* A call of sphere has returned a point whose polar draw is the lower
\* endpoint 1e-6 itself, and a point whose draw is the largest there is.
C8_Witness ==
    \E id \in Spheres :
        /\ calls[id].pc = "done"
        /\ \E i, j \in 1 .. calls[id].n :
              /\ calls[id].u[i] = EPS
              /\ calls[id].u[j] >= Scale - 3 * EPS

\* C9: the azimuthal angles come from a batch of their own, n draws of
\* uniform(n) taken after the n polar draws, each phi being 2 pi times its
\* value, so that 0 <= phi < 2 pi and no draw serves both angles of a point.
C9_SeparateAzimuth ==
    \A id \in Spheres :
        LET c == calls[id]
            es == LogOf(id)
        IN  c.pc = "done" =>
                /\ Len(es) = 2
                /\ es[2].low = 0 /\ es[2].high = Scale /\ es[2].size = c.n
                /\ es[1].first + c.n <= es[2].first
                /\ Len(c.phi) = c.n
                /\ \A i \in 1 .. c.n :
                      /\ c.v[i] = Mul[Scale, Draw(es[2].g, i - 1)]
                      /\ c.phi[i] = Mul[TwoPi, c.v[i]]
                      /\ 0 <= c.phi[i] /\ c.phi[i] < TwoPi

\* A call of sphere has returned a point of azimuth 0 and a point of
\* azimuth beyond pi.
C9_Witness ==
    \E id \in Spheres :
        /\ calls[id].pc = "done"
        /\ \E i, j \in 1 .. calls[id].n :
              calls[id].phi[i] = 0 /\ calls[id].phi[j] > Pi

\* The place in the log of call id's first call of the generator.
FirstPos(id) == CHOOSE k \in 1 .. Len(log) : log[k].caller = id /\ log[k].ok

\* The generator's state and its count of draws after the log's k-th call.
GenAfter(k) == IF k = Len(log) THEN gen ELSE log[k + 1].g
DrawnAfter(k) == IF k = Len(log) THEN drawn ELSE log[k + 1].first

\* The point sphere builds from the polar draw ku and the azimuthal draw kv.
PointOf(ku, kv) ==
    LET th == Arccos[2 * (EPS + Mul[Scale - 2 * EPS, ku]) - Scale]
        ph == Mul[TwoPi, Mul[Scale, kv]]
    IN  <<Mul[Sin[th], Cos[ph]], Mul[Sin[th], Sin[ph]], Cos[th]>>

\* Call id ran with no other caller's generator call inside it.
SingleThreaded(id) ==
    \A k \in 1 .. Len(log) :
        (log[k].caller = id /\ k > FirstPos(id)) => log[k - 1].caller = id

\* C10: a single-threaded uniform(n) consumes exactly n draws and sphere(n)
\* exactly 2n, the n polar draws first; point i is built from draw i and
\* draw n + i of the call, so the result is a function of the generator's
\* state at the call.
C10_DrawOrder ==
    \A id \in CallIds :
        LET c == calls[id]
            k == FirstPos(id)
        IN  (c.pc = "done" /\ SingleThreaded(id)) =>
                /\ log[k].g = c.start
                /\ c.op = "uniform" =>
                      /\ GenAfter(k) = GenAt(c.start, c.n)
                      /\ DrawnAfter(k) = log[k].first + c.n
                      /\ c.result = [i \in 1 .. c.n |->
                            LoOf(c) + Mul[HiOf(c) - LoOf(c),
                                          Draw(c.start, i - 1)]]
                /\ c.op = "sphere" =>
                      /\ log[k + 1].caller = id
                      /\ log[k + 1].g = GenAt(c.start, c.n)
                      /\ log[k + 1].first = log[k].first + c.n
                      /\ GenAfter(k + 1) = GenAt(c.start, 2 * c.n)
                      /\ DrawnAfter(k + 1) = log[k].first + 2 * c.n
                      /\ c.result = [i \in 1 .. c.n |->
                            PointOf(Draw(c.start, i - 1),
                                    Draw(c.start, c.n + i - 1))]

\* A single-threaded sphere(MaxN) has returned after another call, and the
\* generator stands 2 MaxN draws past its state at the call.
C10_Witness ==
    \E id \in Spheres :
        /\ calls[id].pc = "done" /\ calls[id].n = MaxN
        /\ SingleThreaded(id)
        /\ log[FirstPos(id)].first > 0
        /\ drawn = log[FirstPos(id)].first + 2 * MaxN

====
